---- MODULE Spec2Model ----
(***************************************************************************)
(* A model of eslint.config.mjs: the TanStack Start naming patterns, built *)
(* by composing extended-glob fragments, the check-file folder rule that   *)
(* applies them, and the resolution of the exported flat config array for  *)
(* the rule import-x/no-default-export.                                    *)
(*                                                                         *)
(* A pattern is the sequence of the lexical tokens of its source text, so  *)
(* template-string interpolation is sequence concatenation.  MakeRe parses *)
(* the tokens the way the glob matcher does (extglob groups +( *( @(, the  *)
(* regex group (?:, alternation, bracket classes, backslash escapes) and   *)
(* Matches decides whether the whole name is in the pattern's language.    *)
(***************************************************************************)
EXTENDS Integers, Sequences, FiniteSets, TLC

VARIABLES name, pc, matched, rule, accepted,
          file, shared, idx, severity

vars == <<name, pc, matched, rule, accepted, file, shared, idx, severity>>

----------------------------------------------------------------------------
(* Bounds of the model *)

\* longest name enumerated over Alphabet (the names of the @example
\* comments are added to the inputs whatever their length)
MaxLen == 4

----------------------------------------------------------------------------
(* Characters *)

Lower == {"a", "b", "c", "d", "e", "f", "g", "h", "i", "j", "k", "l", "m",
          "n", "o", "p", "q", "r", "s", "t", "u", "v", "w", "x", "y", "z"}

Upper == {"A", "B", "C", "D", "E", "F", "G", "H", "I", "J", "K", "L", "M",
          "N", "O", "P", "Q", "R", "S", "T", "U", "V", "W", "X", "Y", "Z"}

Digit == {"0", "1", "2", "3", "4", "5", "6", "7", "8", "9"}

Whitespace == {" ", "\t"}

\* one representative of every character class the patterns tell apart,
\* plus the path separator, a blank and a tab
Alphabet == {"a", "0", "A", "-", "$", "?", ".", "(", ")", "_", "/", " ", "\t"}

----------------------------------------------------------------------------
(* The pattern constants, token by token *)

\* CAMEL_CASE with a first run that takes uppercase letters too
CAMEL_CASE_AllowsLeadingUpper ==
    <<"+(", "[a-z]", "|", "[A-Z]", ")", "*(", "[a-z0-9]", ")",
      "*(", "[A-Z]", "*(", "[a-z0-9]", ")", ")">>

\* '+([a-z])*([a-z0-9])*([A-Z]*([a-z0-9]))'
CAMEL_CASE ==
    <<"+(", "[a-z]", ")", "*(", "[a-z0-9]", ")",
      "*(", "[A-Z]", "*(", "[a-z0-9]", ")", ")">>

\* KEBAB_CASE with a run of hyphens as the joiner
KEBAB_CASE_RepeatedHyphen ==
    <<"+(", "[a-z]", ")", "*(", "[a-z0-9]", ")",
      "*(", "+(", "-", ")", "+(", "[a-z0-9]", ")", ")">>

\* '+([a-z])*([a-z0-9])*(-+([a-z0-9]))'
KEBAB_CASE ==
    <<"+(", "[a-z]", ")", "*(", "[a-z0-9]", ")",
      "*(", "-", "+(", "[a-z0-9]", ")", ")">>

\* TANSTACK_DYNAMIC_SEGMENTS with the sigil left optional
TANSTACK_DYNAMIC_SEGMENTS_OptionalSigil ==
    <<"*(", "\\$", ")">> \o CAMEL_CASE

\* `\\$${CAMEL_CASE}`
TANSTACK_DYNAMIC_SEGMENTS == <<"\\$">> \o CAMEL_CASE

\* TANSTACK_OPTIONAL_SEGMENTS with the "?" marker left optional
TANSTACK_OPTIONAL_SEGMENTS_OptionalMarker ==
    <<"\\$", "(?:">> \o CAMEL_CASE \o <<"*(", "\\?", ")", "|", "\\.">>
        \o CAMEL_CASE \o <<")">>

\* `\\$(?:${CAMEL_CASE}\\?|\\.${CAMEL_CASE})`
TANSTACK_OPTIONAL_SEGMENTS ==
    <<"\\$", "(?:">> \o CAMEL_CASE \o <<"\\?", "|", "\\.">>
        \o CAMEL_CASE \o <<")">>

\* `\\$`
TANSTACK_CATCH_ALL_SEGMENTS == <<"\\$">>

\* TANSTACK_ROUTE_GROUPS wrapping CAMEL_CASE instead of KEBAB_CASE
TANSTACK_ROUTE_GROUPS_CamelInside == <<"\\(">> \o CAMEL_CASE \o <<"\\)">>

\* `\\(${KEBAB_CASE}\\)`
TANSTACK_ROUTE_GROUPS == <<"\\(">> \o KEBAB_CASE \o <<"\\)">>

\* `\\_${CAMEL_CASE}`
TANSTACK_PRIVATE_FOLDERS == <<"\\_">> \o CAMEL_CASE

\* `(?:${KEBAB_CASE}|${CAMEL_CASE})`
TANSTACK_STATIC_ROUTE ==
    <<"(?:">> \o KEBAB_CASE \o <<"|">> \o CAMEL_CASE \o <<")">>

\* TANSTACK_ROUTE_SEGMENT without the catch-all alternative
TANSTACK_ROUTE_SEGMENT_NoCatchAll ==
    <<"@(">> \o TANSTACK_STATIC_ROUTE \o <<"|">> \o TANSTACK_DYNAMIC_SEGMENTS
        \o <<"|">> \o TANSTACK_OPTIONAL_SEGMENTS \o <<"|">>
        \o TANSTACK_ROUTE_GROUPS \o <<"|">> \o TANSTACK_PRIVATE_FOLDERS
        \o <<")">>

\* `@(${STATIC}|${DYNAMIC}|${OPTIONAL}|${CATCH_ALL}|${GROUPS}|${PRIVATE})`
TANSTACK_ROUTE_SEGMENT ==
    <<"@(">> \o TANSTACK_STATIC_ROUTE \o <<"|">> \o TANSTACK_DYNAMIC_SEGMENTS
        \o <<"|">> \o TANSTACK_OPTIONAL_SEGMENTS \o <<"|">>
        \o TANSTACK_CATCH_ALL_SEGMENTS \o <<"|">> \o TANSTACK_ROUTE_GROUPS
        \o <<"|">> \o TANSTACK_PRIVATE_FOLDERS \o <<")">>

\* TANSTACK_FILENAME_CASE without the static alternative
TANSTACK_FILENAME_CASE_NoStatic ==
    <<"@(", "i", "n", "d", "e", "x", "|", "r", "o", "u", "t", "e", "|">>
        \o TANSTACK_DYNAMIC_SEGMENTS \o <<"|">>
        \o TANSTACK_OPTIONAL_SEGMENTS \o <<"|">>
        \o TANSTACK_CATCH_ALL_SEGMENTS \o <<"|">>
        \o TANSTACK_ROUTE_GROUPS \o <<"|">> \o TANSTACK_PRIVATE_FOLDERS
        \o <<")">>

\* `@(index|route|${STATIC}|${DYNAMIC}|...|${PRIVATE})`
TANSTACK_FILENAME_CASE ==
    <<"@(", "i", "n", "d", "e", "x", "|", "r", "o", "u", "t", "e", "|">>
        \o TANSTACK_STATIC_ROUTE \o <<"|">> \o TANSTACK_DYNAMIC_SEGMENTS
        \o <<"|">> \o TANSTACK_OPTIONAL_SEGMENTS \o <<"|">>
        \o TANSTACK_CATCH_ALL_SEGMENTS \o <<"|">> \o TANSTACK_ROUTE_GROUPS
        \o <<"|">> \o TANSTACK_PRIVATE_FOLDERS \o <<")">>

\* TANSTACK_FOLDER_CASE without the private-folder alternative
TANSTACK_FOLDER_CASE_NoPrivate ==
    <<"@(">> \o TANSTACK_STATIC_ROUTE \o <<"|">> \o TANSTACK_DYNAMIC_SEGMENTS
        \o <<"|">> \o TANSTACK_OPTIONAL_SEGMENTS \o <<"|">>
        \o TANSTACK_CATCH_ALL_SEGMENTS \o <<"|">> \o TANSTACK_ROUTE_GROUPS
        \o <<")">>

\* `@(${STATIC}|${DYNAMIC}|${OPTIONAL}|${CATCH_ALL}|${GROUPS}|${PRIVATE})`
TANSTACK_FOLDER_CASE ==
    <<"@(">> \o TANSTACK_STATIC_ROUTE \o <<"|">> \o TANSTACK_DYNAMIC_SEGMENTS
        \o <<"|">> \o TANSTACK_OPTIONAL_SEGMENTS \o <<"|">>
        \o TANSTACK_CATCH_ALL_SEGMENTS \o <<"|">> \o TANSTACK_ROUTE_GROUPS
        \o <<"|">> \o TANSTACK_PRIVATE_FOLDERS \o <<")">>

----------------------------------------------------------------------------
(* Parsing a pattern *)

Openers == {"+(", "*(", "@(", "(?:"}

Brackets == {"[a-z]", "[a-z0-9]", "[A-Z]"}

Escapes == {"\\$", "\\?", "\\.", "\\(", "\\)", "\\_"}

\* the characters a bracket expression stands for
BracketChars(tok) ==
    CASE tok = "[a-z]" -> Lower
      [] tok = "[a-z0-9]" -> Lower \cup Digit
      [] tok = "[A-Z]" -> Upper

\* the literal character a backslash escape stands for
Unescape(tok) ==
    CASE tok = "\\$" -> "$"
      [] tok = "\\?" -> "?"
      [] tok = "\\." -> "."
      [] tok = "\\(" -> "("
      [] tok = "\\)" -> ")"
      [] tok = "\\_" -> "_"

\* the set of characters a single-character token matches
CharsOf(tok) ==
    IF tok \in Brackets THEN BracketChars(tok)
    ELSE IF tok \in Escapes THEN {Unescape(tok)}
    ELSE {tok}

CharNode(tok) == [kind |-> "chr", chars |-> CharsOf(tok)]

\* +( is one-or-more, *( is zero-or-more, @( and (?: are exactly one
GroupNode(opener, alts) == [kind |-> "grp", open |-> opener, alts |-> alts]

RECURSIVE ParseAlt(_, _), ParseAlts(_, _)

\* the atoms from token i up to the next "|" or ")" of this nesting level
ParseAlt(toks, i) ==
    IF i > Len(toks) \/ toks[i] \in {"|", ")"}
    THEN [nodes |-> <<>>, next |-> i]
    ELSE IF toks[i] \in Openers
    THEN LET g == ParseAlts(toks, i + 1)
             rest == ParseAlt(toks, g.next)
         IN [nodes |-> <<GroupNode(toks[i], g.alts)>> \o rest.nodes,
             next |-> rest.next]
    ELSE LET rest == ParseAlt(toks, i + 1)
         IN [nodes |-> <<CharNode(toks[i])>> \o rest.nodes,
             next |-> rest.next]

\* the "|"-separated alternatives from token i up to the closing ")"
ParseAlts(toks, i) ==
    LET a == ParseAlt(toks, i)
    IN IF a.next > Len(toks)
       THEN [alts |-> <<a.nodes>>, next |-> a.next]
       ELSE IF toks[a.next] = ")"
       THEN [alts |-> <<a.nodes>>, next |-> a.next + 1]
       ELSE LET r == ParseAlts(toks, a.next + 1)
            IN [alts |-> <<a.nodes>> \o r.alts, next |-> r.next]

\* the whole pattern, anchored at both ends
MakeRe(toks) == GroupNode("@(", ParseAlts(toks, 1).alts)

----------------------------------------------------------------------------
(* Matching a name *)

RECURSIVE EndsSeq(_, _, _, _), EndsNode(_, _, _), Closure(_, _, _)

\* positions reachable from the positions P by matching nodes[k..]
EndsSeq(nodes, k, s, P) ==
    IF k > Len(nodes) \/ P = {} THEN P
    ELSE EndsSeq(nodes, k + 1, s, EndsNode(nodes[k], s, P))

\* positions reachable by one pass through one of the group's alternatives
Once(node, s, P) ==
    UNION {EndsSeq(node.alts[a], 1, s, P) : a \in DOMAIN node.alts}

\* positions reachable by zero or more passes
Closure(node, s, P) ==
    LET Q == P \cup Once(node, s, P)
    IN IF Q = P THEN P ELSE Closure(node, s, Q)

EndsNode(node, s, P) ==
    IF node.kind = "chr"
    THEN {p + 1 : p \in {q \in P : q <= Len(s) /\ s[q] \in node.chars}}
    ELSE CASE node.open = "*(" -> Closure(node, s, P)
           [] node.open = "+(" -> Closure(node, s, Once(node, s, P))
           [] OTHER -> Once(node, s, P)

\* the matcher never matches the empty string
Matches(re, s) == s # <<>> /\ (Len(s) + 1) \in EndsNode(re, s, {1})

----------------------------------------------------------------------------
(* The names the patterns are tried on *)

Str_index == <<"i", "n", "d", "e", "x">>
Str_route == <<"r", "o", "u", "t", "e">>
Str_Dollarid == <<"$", "i", "d">>
Str_DollarId == <<"$", "I", "d">>
Str_id == <<"i", "d">>
Str_DollarproductId == <<"$", "p", "r", "o", "d", "u", "c", "t", "I", "d">>
Str_productId == <<"p", "r", "o", "d", "u", "c", "t", "I", "d">>
Str_UserProfile == <<"U", "s", "e", "r", "P", "r", "o", "f", "i", "l", "e">>
Str_LPadminRP == <<"(", "a", "d", "m", "i", "n", ")">>
Str_admin == <<"a", "d", "m", "i", "n">>
Str_LPuser_profileRP == <<"(", "u", "s", "e", "r", "-", "p", "r", "o", "f", "i", "l", "e", ")">>
Str_LPUserProfileRP == <<"(", "U", "s", "e", "r", "P", "r", "o", "f", "i", "l", "e", ")">>
Str_user_profile == <<"u", "s", "e", "r", "-", "p", "r", "o", "f", "i", "l", "e">>
Str_Usutils == <<"_", "u", "t", "i", "l", "s">>
Str_Uscomponents == <<"_", "c", "o", "m", "p", "o", "n", "e", "n", "t", "s">>
Str_DollaridQ == <<"$", "i", "d", "?">>
Str_DollarDotslug == <<"$", ".", "s", "l", "u", "g">>
Str_Dollar == <<"$">>

\* the literal names of the documentation comments
Examples ==
    {Str_index, Str_route, Str_Dollarid, Str_DollarId,
     Str_id, Str_DollarproductId, Str_productId, Str_UserProfile,
     Str_LPadminRP, Str_admin, Str_LPuser_profileRP, Str_LPUserProfileRP,
     Str_user_profile, Str_Usutils, Str_Uscomponents, Str_DollaridQ,
     Str_DollarDotslug, Str_Dollar}

\* every string over Alphabet of at most MaxLen characters, and the examples
Names == UNION {[1..n -> Alphabet] : n \in 0..MaxLen} \cup Examples

----------------------------------------------------------------------------
(* The exported patterns, compiled once *)

Patterns ==
    [CAMEL_CASE |-> MakeRe(CAMEL_CASE),
     KEBAB_CASE |-> MakeRe(KEBAB_CASE),
     TANSTACK_DYNAMIC_SEGMENTS |-> MakeRe(TANSTACK_DYNAMIC_SEGMENTS),
     TANSTACK_OPTIONAL_SEGMENTS |-> MakeRe(TANSTACK_OPTIONAL_SEGMENTS),
     TANSTACK_CATCH_ALL_SEGMENTS |-> MakeRe(TANSTACK_CATCH_ALL_SEGMENTS),
     TANSTACK_ROUTE_GROUPS |-> MakeRe(TANSTACK_ROUTE_GROUPS),
     TANSTACK_PRIVATE_FOLDERS |-> MakeRe(TANSTACK_PRIVATE_FOLDERS),
     TANSTACK_STATIC_ROUTE |-> MakeRe(TANSTACK_STATIC_ROUTE),
     TANSTACK_ROUTE_SEGMENT |-> MakeRe(TANSTACK_ROUTE_SEGMENT),
     TANSTACK_FILENAME_CASE |-> MakeRe(TANSTACK_FILENAME_CASE),
     TANSTACK_FOLDER_CASE |-> MakeRe(TANSTACK_FOLDER_CASE)]

\* the exported patterns that s matches
MatchedBy(s) == {p \in DOMAIN Patterns : Matches(Patterns[p], s)}

\* "check-file/folder-naming-convention": folder glob -> naming pattern.
\* The named convention "KEBAB_CASE" is the plugin's built-in glob, the one
\* the KEBAB_CASE constant of this file was copied from.
FolderNamingConvention ==
    <<[glob |-> "apps/*/app/routes/**", naming |-> MakeRe(TANSTACK_FOLDER_CASE)],
      [glob |-> "apps/*/", naming |-> MakeRe(KEBAB_CASE)],
      [glob |-> "packages/**/", naming |-> MakeRe(KEBAB_CASE)]>>

----------------------------------------------------------------------------
(* Naming: a name is tried against the patterns *)

NoFile == [dirs |-> <<>>, base |-> <<>>]

InitNaming ==
    /\ name \in Names
    /\ pc = "input"
    /\ matched = {}
    /\ rule = 0
    /\ accepted = FALSE
    /\ file = NoFile
    /\ shared = FALSE
    /\ idx = 0
    /\ severity = "unset"

\* the name is matched against every exported pattern
MatchName ==
    /\ pc = "input"
    /\ matched' = MatchedBy(name)
    /\ pc' = "matched"
    /\ UNCHANGED <<name, rule, accepted, file, shared, idx, severity>>

\* the folder rule checks a folder called name found under the r-th glob
CheckFolder(r) ==
    /\ pc = "input"
    /\ rule' = r
    /\ accepted' = Matches(FolderNamingConvention[r].naming, name)
    /\ pc' = "folder"
    /\ UNCHANGED <<name, matched, file, shared, idx, severity>>

NextNaming ==
    \/ MatchName
    \/ \E r \in DOMAIN FolderNamingConvention : CheckFolder(r)

Spec == InitNaming /\ [][NextNaming]_vars

----------------------------------------------------------------------------
(* Config: the exported flat config array *)

\* number of config objects the spread shared configs contribute
NumShared == 2

NoDefaultExport == "import-x/no-default-export"

\* what a shared config may say about a rule
Settings == {"off", "warn", "error"}

Range(f) == {f[i] : i \in DOMAIN f}

\* a file is its directories and the dot-separated parts of its base name
Ext(f) == f.base[Len(f.base)]

HasExt(f, exts) == Len(f.base) >= 2 /\ Ext(f) \in exts

\* the base name is "*" followed by "." and the dot-joined suffix
StarDot(f, suffix) ==
    /\ Len(f.base) > Len(suffix)
    /\ SubSeq(f.base, Len(f.base) - Len(suffix) + 1, Len(f.base)) = suffix

\* glob against a file path relative to the config's base directory; a
\* pattern that names a directory covers everything under it
GlobMatches(glob, f) ==
    CASE glob = "**/styled-system/" -> "styled-system" \in Range(f.dirs)
      [] glob = "**/routeTree.gen.ts" -> f.base = <<"routeTree", "gen", "ts">>
      [] glob = "**/gql" -> "gql" \in Range(f.dirs) \/ f.base = <<"gql">>
      [] glob = "**/.vinxi" -> ".vinxi" \in Range(f.dirs) \/ f.base = <<"", "vinxi">>
      [] glob = "**/.output" -> ".output" \in Range(f.dirs) \/ f.base = <<"", "output">>
      [] glob = "**/*.config.{ts,mjs,cjs}" ->
            \E e \in {"ts", "mjs", "cjs"} : StarDot(f, <<"config", e>>)
      [] glob = "**/.storybook/**/*.{ts,js}" ->
            ".storybook" \in Range(f.dirs) /\ HasExt(f, {"ts", "js"})
      [] glob = "**/postcss.config.cjs" -> f.base = <<"postcss", "config", "cjs">>
      [] glob = "apps/**/*.{ts,tsx}" ->
            /\ f.dirs # <<>>
            /\ f.dirs[1] = "apps"
            /\ HasExt(f, {"ts", "tsx"})
      [] glob = "packages/**/*.{ts,tsx}" ->
            /\ f.dirs # <<>>
            /\ f.dirs[1] = "packages"
            /\ HasExt(f, {"ts", "tsx"})
      [] glob = "**/*.stories.tsx" -> StarDot(f, <<"stories", "tsx">>)
      [] glob = "**/*.config.ts" -> StarDot(f, <<"config", "ts">>)
      [] glob = "**/ssr.tsx" -> f.base = <<"ssr", "tsx">>
      [] glob = "**/api.ts" -> f.base = <<"api", "ts">>
      [] glob = "**/*.{js,mjs,cjs}" -> HasExt(f, {"js", "mjs", "cjs"})

NoRules == <<>>

\* 1: ignore patterns for generated files
Ignores ==
    [ignores |-> {"**/styled-system/", "**/routeTree.gen.ts", "**/gql",
                  "**/.vinxi", "**/.output", "**/*.config.{ts,mjs,cjs}",
                  "**/.storybook/**/*.{ts,js}", "**/postcss.config.cjs"},
     files |-> {}, opaque |-> FALSE, rules |-> NoRules]

\* 2: scope files to lint (apps and packages)
ScopeFiles ==
    [ignores |-> {}, files |-> {"apps/**/*.{ts,tsx}", "packages/**/*.{ts,tsx}"},
     opaque |-> FALSE, rules |-> NoRules]

\* 3: global parser + environment setup
GlobalSetup ==
    [ignores |-> {}, files |-> {}, opaque |-> FALSE, rules |-> NoRules]

\* 4: a config object of a shared config; what it holds is not in this file
SharedConfig ==
    [ignores |-> {}, files |-> {}, opaque |-> TRUE, rules |-> NoRules]

\* Core Project Rules
CoreProjectRules ==
    [ignores |-> {}, files |-> {}, opaque |-> FALSE,
     rules |-> ("@typescript-eslint/consistent-type-imports" :> "error")
                @@ ("react-refresh/only-export-components" :> "warn")
                @@ (NoDefaultExport :> "error")
                @@ ("@typescript-eslint/only-throw-error" :> "off")]

\* Allow default exports only where strictly needed
AllowDefaultExports ==
    [ignores |-> {},
     files |-> {"**/*.stories.tsx", "**/*.config.ts", "**/ssr.tsx", "**/api.ts"},
     opaque |-> FALSE,
     rules |-> (NoDefaultExport :> "off")]

\* React hooks safety
ReactHooks ==
    [ignores |-> {}, files |-> {}, opaque |-> FALSE,
     rules |-> ("react-hooks/rules-of-hooks" :> "error")
                @@ ("react-hooks/exhaustive-deps" :> "warn")]

\* Prefer arrow functions for all callbacks and exports
PreferArrows ==
    [ignores |-> {}, files |-> {}, opaque |-> FALSE,
     rules |-> ("prefer-arrow-functions/prefer-arrow-functions" :> "error")
                @@ ("prefer-arrow-callback" :> "error")
                @@ ("func-style" :> "error")]

\* File + directory naming conventions
NamingConventions ==
    [ignores |-> {}, files |-> {}, opaque |-> FALSE,
     rules |-> ("check-file/folder-naming-convention" :> "error")
                @@ ("check-file/filename-naming-convention" :> "error")
                @@ ("filename-export/match-default-export" :> "error")]

\* the array with the exemption placed before the core rules
ConfigArray_ExemptionFirst ==
    <<Ignores, ScopeFiles, GlobalSetup>>
        \o [i \in 1..NumShared |-> SharedConfig]
        \o <<AllowDefaultExports, CoreProjectRules, ReactHooks, PreferArrows,
             NamingConventions>>

\* export default [ ... ]
ConfigArray ==
    <<Ignores, ScopeFiles, GlobalSetup>>
        \o [i \in 1..NumShared |-> SharedConfig]
        \o <<CoreProjectRules, AllowDefaultExports, ReactHooks, PreferArrows,
             NamingConventions>>

\* a config object with nothing but ignores ignores the file for every object
GloballyIgnored(f) ==
    \E i \in DOMAIN ConfigArray :
        /\ ConfigArray[i].files = {}
        /\ ConfigArray[i].rules = NoRules
        /\ ~ConfigArray[i].opaque
        /\ \E g \in ConfigArray[i].ignores : GlobMatches(g, f)

\* a file is linted when some files pattern names it: one of this array, one
\* of a shared config (named), or the linter's default "**/*.{js,mjs,cjs}"
Scoped(f, named) ==
    \/ named
    \/ GlobMatches("**/*.{js,mjs,cjs}", f)
    \/ \E i \in DOMAIN ConfigArray : \E g \in ConfigArray[i].files : GlobMatches(g, f)

\* a config object applies to the file when it has no files key or one of
\* its files patterns matches
Applies(entry, f) ==
    entry.files = {} \/ \E g \in entry.files : GlobMatches(g, f)

DirsSet ==
    {<<>>, <<"scripts">>, <<"apps", "web", "app">>, <<"apps", "web", "gql">>,
     <<"apps", "web", ".storybook">>, <<"packages", "ui">>,
     <<"packages", "ui", "styled-system">>}

Bases ==
    {<<"Button", "stories", "tsx">>, <<"vite", "config", "ts">>,
     <<"ssr", "tsx">>, <<"api", "ts">>, <<"index", "tsx">>, <<"api", "tsx">>,
     <<"ssr", "ts">>, <<"routeTree", "gen", "ts">>, <<"main", "ts">>,
     <<"postcss", "config", "cjs">>, <<"util", "js">>, <<"README", "md">>,
     <<"stories", "tsx">>, <<"config", "ts">>}

Files == {[dirs |-> d, base |-> b] : d \in DirsSet, b \in Bases}

InitConfig ==
    /\ file \in Files
    /\ shared \in BOOLEAN
    /\ pc = "ignores"
    /\ idx = 1
    /\ severity = "unset"
    /\ name = <<>>
    /\ matched = {}
    /\ rule = 0
    /\ accepted = FALSE

\* an ignored file gets no config at all
CheckIgnores ==
    /\ pc = "ignores"
    /\ pc' = IF GloballyIgnored(file) THEN "ignored" ELSE "files"
    /\ severity' = IF GloballyIgnored(file) THEN "none" ELSE severity
    /\ UNCHANGED <<name, matched, rule, accepted, file, shared, idx>>

\* neither does a file that no files pattern names
CheckFiles ==
    /\ pc = "files"
    /\ pc' = IF Scoped(file, shared) THEN "merge" ELSE "unmatched"
    /\ severity' = IF Scoped(file, shared) THEN severity ELSE "none"
    /\ UNCHANGED <<name, matched, rule, accepted, file, shared, idx>>

\* the idx-th config object of this file is merged over the ones before it
MergeEntry ==
    /\ pc = "merge"
    /\ idx <= Len(ConfigArray)
    /\ ~ConfigArray[idx].opaque
    /\ severity' = IF /\ Applies(ConfigArray[idx], file)
                      /\ NoDefaultExport \in DOMAIN ConfigArray[idx].rules
                   THEN ConfigArray[idx].rules[NoDefaultExport]
                   ELSE severity
    /\ idx' = idx + 1
    /\ UNCHANGED <<name, pc, matched, rule, accepted, file, shared>>

\* a shared config's object may set the rule to anything, or leave it alone
MergeShared(v) ==
    /\ pc = "merge"
    /\ idx <= Len(ConfigArray)
    /\ ConfigArray[idx].opaque
    /\ severity' = v
    /\ idx' = idx + 1
    /\ UNCHANGED <<name, pc, matched, rule, accepted, file, shared>>

\* the last object merged, the config of the file is final
Finish ==
    /\ pc = "merge"
    /\ idx > Len(ConfigArray)
    /\ pc' = "done"
    /\ UNCHANGED <<name, matched, rule, accepted, file, shared, idx, severity>>

NextConfig ==
    \/ CheckIgnores
    \/ CheckFiles
    \/ MergeEntry
    \/ \E v \in Settings \cup {severity} : MergeShared(v)
    \/ Finish

SpecConfig == InitConfig /\ [][NextConfig]_vars

----------------------------------------------------------------------------
(* Properties of the naming patterns, checked under Spec *)

Has(p) == p \in matched

Middle(s) == SubSeq(s, 2, Len(s) - 1)

IsCamel(s) == Matches(Patterns.CAMEL_CASE, s)

IsKebab(s) == Matches(Patterns.KEBAB_CASE, s)

RoutesGlob == "apps/*/app/routes/**"

\* C1: under the folder glob apps/*/app/routes/**, whose naming pattern is
\* TANSTACK_FOLDER_CASE, the folder "(user-profile)" is accepted,
\* "UserProfile" is rejected and "_utils" is accepted.
C1_RoutesFolders ==
    (pc = "folder" /\ FolderNamingConvention[rule].glob = RoutesGlob) =>
        /\ name = Str_LPuser_profileRP => accepted
        /\ name = Str_UserProfile => ~accepted
        /\ name = Str_Usutils => accepted

C1_Witness ==
    /\ pc = "folder"
    /\ FolderNamingConvention[rule].glob = RoutesGlob
    /\ name = Str_Usutils
    /\ accepted

\* C2: TANSTACK_FILENAME_CASE matches "index", "route", "$id", "(admin)" and
\* every name that matches KEBAB_CASE or CAMEL_CASE, and matches no name
\* that holds a path separator or a whitespace character.
C2_Filename ==
    pc = "matched" =>
        /\ name \in {Str_index, Str_route, Str_Dollarid, Str_LPadminRP}
              => Has("TANSTACK_FILENAME_CASE")
        /\ (Has("KEBAB_CASE") \/ Has("CAMEL_CASE"))
              => Has("TANSTACK_FILENAME_CASE")
        /\ (\E i \in DOMAIN name : name[i] \in {"/"} \cup Whitespace)
              => ~Has("TANSTACK_FILENAME_CASE")

C2_Witness ==
    /\ pc = "matched"
    /\ Has("KEBAB_CASE")
    /\ ~Has("CAMEL_CASE")
    /\ Has("TANSTACK_FILENAME_CASE")

Kinds ==
    {"TANSTACK_STATIC_ROUTE", "TANSTACK_DYNAMIC_SEGMENTS",
     "TANSTACK_OPTIONAL_SEGMENTS", "TANSTACK_CATCH_ALL_SEGMENTS",
     "TANSTACK_ROUTE_GROUPS", "TANSTACK_PRIVATE_FOLDERS"}

\* C3: a name matches at most one of the six segment kinds (so the
\* catch-all and the optional pattern share no name); two patterns may
\* match the same name only inside Static, as KEBAB_CASE and CAMEL_CASE.
C3_KindsExclusive ==
    pc = "matched" =>
        /\ Cardinality(matched \cap Kinds) <= 1
        /\ ~(Has("TANSTACK_CATCH_ALL_SEGMENTS") /\ Has("TANSTACK_OPTIONAL_SEGMENTS"))
        /\ (Has("KEBAB_CASE") \/ Has("CAMEL_CASE"))
              => matched \cap Kinds = {"TANSTACK_STATIC_ROUTE"}

C3_Witness ==
    /\ pc = "matched"
    /\ Has("KEBAB_CASE")
    /\ Has("CAMEL_CASE")
    /\ matched \cap Kinds = {"TANSTACK_STATIC_ROUTE"}

\* C4: TANSTACK_ROUTE_GROUPS matches "(admin)" and "(user-profile)", not
\* "admin" nor "(UserProfile)"; it matches a name exactly when the name is
\* "(" followed by a KEBAB_CASE match followed by ")".
C4_RouteGroups ==
    pc = "matched" =>
        /\ name \in {Str_LPadminRP, Str_LPuser_profileRP}
              => Has("TANSTACK_ROUTE_GROUPS")
        /\ name \in {Str_admin, Str_LPUserProfileRP}
              => ~Has("TANSTACK_ROUTE_GROUPS")
        /\ Has("TANSTACK_ROUTE_GROUPS") <=>
              /\ Len(name) >= 2
              /\ name[1] = "("
              /\ name[Len(name)] = ")"
              /\ IsKebab(Middle(name))

C4_Witness ==
    /\ pc = "matched"
    /\ name = Str_LPuser_profileRP
    /\ Has("TANSTACK_ROUTE_GROUPS")

\* C5: TANSTACK_OPTIONAL_SEGMENTS matches "$id?" and "$.slug", not "$id";
\* it matches a name exactly when the name is "$" + a CAMEL_CASE match +
\* "?", or "$." + a CAMEL_CASE match.
C5_OptionalSegments ==
    pc = "matched" =>
        /\ name \in {Str_DollaridQ, Str_DollarDotslug}
              => Has("TANSTACK_OPTIONAL_SEGMENTS")
        /\ name = Str_Dollarid => ~Has("TANSTACK_OPTIONAL_SEGMENTS")
        /\ Has("TANSTACK_OPTIONAL_SEGMENTS") <=>
              /\ Len(name) >= 2
              /\ name[1] = "$"
              /\ \/ name[Len(name)] = "?" /\ IsCamel(Middle(name))
                 \/ name[2] = "." /\ IsCamel(SubSeq(name, 3, Len(name)))

C5_Witness ==
    /\ pc = "matched"
    /\ name = Str_DollarDotslug
    /\ Has("TANSTACK_OPTIONAL_SEGMENTS")

\* C6: TANSTACK_DYNAMIC_SEGMENTS matches "$id" and "$productId", not "id"
\* nor "$Id"; it matches a name exactly when the name is "$" followed by a
\* CAMEL_CASE match.
C6_DynamicSegments ==
    pc = "matched" =>
        /\ name \in {Str_Dollarid, Str_DollarproductId}
              => Has("TANSTACK_DYNAMIC_SEGMENTS")
        /\ name \in {Str_id, Str_DollarId}
              => ~Has("TANSTACK_DYNAMIC_SEGMENTS")
        /\ Has("TANSTACK_DYNAMIC_SEGMENTS") <=>
              /\ name # <<>>
              /\ name[1] = "$"
              /\ IsCamel(Tail(name))

C6_Witness ==
    /\ pc = "matched"
    /\ name = Str_DollarproductId
    /\ Has("TANSTACK_DYNAMIC_SEGMENTS")

\* C7: a name that matches KEBAB_CASE has no uppercase letter, no two
\* hyphens in a row, and neither starts nor ends with a hyphen.
C7_KebabShape ==
    (pc = "matched" /\ Has("KEBAB_CASE")) =>
        /\ \A i \in DOMAIN name : name[i] \notin Upper
        /\ \A i \in 1..(Len(name) - 1) : ~(name[i] = "-" /\ name[i + 1] = "-")
        /\ name[1] # "-"
        /\ name[Len(name)] # "-"

C7_Witness ==
    /\ pc = "matched"
    /\ Has("KEBAB_CASE")
    /\ \E i \in DOMAIN name : name[i] = "-"

\* C8: CAMEL_CASE matches the camelCase name "productId" and the PascalCase
\* name "UserProfile".
C8_CamelOrPascal ==
    pc = "matched" =>
        /\ name = Str_productId => Has("CAMEL_CASE")
        /\ name = Str_UserProfile => Has("CAMEL_CASE")

\* C10: TANSTACK_FILENAME_CASE, TANSTACK_FOLDER_CASE and
\* TANSTACK_ROUTE_SEGMENT match the same names, "index" and "route" being
\* TANSTACK_STATIC_ROUTE matches already.
C10_SamePatterns ==
    pc = "matched" =>
        /\ Has("TANSTACK_FILENAME_CASE") <=> Has("TANSTACK_FOLDER_CASE")
        /\ Has("TANSTACK_FOLDER_CASE") <=> Has("TANSTACK_ROUTE_SEGMENT")
        /\ name \in {Str_index, Str_route} => Has("TANSTACK_STATIC_ROUTE")

C10_Witness ==
    /\ pc = "matched"
    /\ name = Str_route
    /\ Has("TANSTACK_STATIC_ROUTE")
    /\ Has("TANSTACK_FILENAME_CASE")
    /\ Has("TANSTACK_FOLDER_CASE")
    /\ Has("TANSTACK_ROUTE_SEGMENT")

----------------------------------------------------------------------------
(* Properties of the config array, checked under SpecConfig *)

\* the file matches one of the four globs of the default-export exemption
Exempt(f) ==
    \E g \in {"**/*.stories.tsx", "**/*.config.ts", "**/ssr.tsx", "**/api.ts"} :
        GlobMatches(g, f)

\* resolution has ended: with a config, or with none for the file
Resolved == pc \in {"done", "ignored", "unmatched"}

\* position in the array of the object that turns the rule off
ExemptionAt ==
    CHOOSE i \in DOMAIN ConfigArray :
        /\ NoDefaultExport \in DOMAIN ConfigArray[i].rules
        /\ ConfigArray[i].rules[NoDefaultExport] = "off"

\* C9 as stated: the rule ends "off" for every file matching one of the
\* four globs, and "error" for every other linted file.
C9_AsStated ==
    Resolved =>
        /\ Exempt(file) => severity = "off"
        /\ (pc = "done" /\ ~Exempt(file)) => severity = "error"

\* C9, amended: for every linted file (not ignored, named by a files
\* pattern) the rule ends "off" when the file matches one of the four
\* globs and "error" otherwise, and no object after the exemption changes it.
C9_LintedFiles ==
    (pc \in {"merge", "done"} /\ idx > ExemptionAt) =>
        severity = IF Exempt(file) THEN "off" ELSE "error"

C9_Witness ==
    /\ pc = "done"
    /\ Exempt(file)
    /\ severity = "off"

====
